---- MODULE Spec2Model ----
(***************************************************************************)
(* Model of explode_bulkprint.py: one pass over the outline of a BulkPrint *)
(* PDF that writes one CSV row per "Candidate Details" bookmark and one    *)
(* resume PDF per "*.pdf" bookmark.                                        *)
(*                                                                         *)
(* Strings are sequences of symbols.  A bookmark title is a sequence over  *)
(* TitleSyms, where each symbol stands for a literal piece of text the     *)
(* regular expressions of the script look for:                             *)
(*    "CD"  = " Candidate Details"     "PDF" = ".pdf"                      *)
(*    "LP"  = " ("      "RP" = ")"     "NL"  = newline    "x" = other text *)
(* A line of page text is a sequence over word symbols and " " (a blank).  *)
(* Outline positions are 1-based here (Python's i is position - 1).        *)
(* PyPDF2 is outside the repository: getDestinationPageNumber is taken to  *)
(* resolve every destination to a page 0..numPages-1 of the document.      *)
(***************************************************************************)
EXTENDS Integers, Sequences, FiniteSets, TLC

VARIABLES
    pc,             \* position of the script: start, open, loop, done, exited, raised
    exc,            \* the uncaught exception that ended the script, or "none"
    doc,            \* the open input PDF: [outlines, numPages]
    i,              \* position in doc.outlines of the for loop (line 72)
    candidate_id,   \* line 62
    resume_count,   \* line 58
    resume_errors,  \* line 59
    details,        \* line 86: the lines of the last details page read
    rows,           \* rows written to candidates.csv, in order
    files,          \* output/resumes: candidate id -> pages of <id>.pdf
    emitted,        \* every resume written so far, in order: [id, pos, pages]
    summary         \* the counts printed at the end, <<>> until printed

vars == <<pc, exc, doc, i, candidate_id, resume_count, resume_errors, details,
          rows, files, emitted, summary>>

----------------------------------------------------------------------------
(* Bounds *)

MaxOutline == 3
NumPages == 1
MaxSegOutline == 4
SegNumPages == 3
MaxTitleLen == 4
MaxWords == 4

(* Program constants.  INPUT_PDFS (line 29) names one file, so the loop of *)
(* line 65 runs once.                                                      *)

TITLES == {<<"Mr">>, <<"Mrs">>, <<"Ms">>, <<"Miss">>, <<"Dr">>, <<"Professor">>}

----------------------------------------------------------------------------
(* Generic helpers *)

SeqsUpTo(S, n) == UNION {[1..k -> S] : k \in 0..n}

Min(S) == CHOOSE m \in S : \A n \in S : m <= n

Max(S) == CHOOSE m \in S : \A n \in S : n <= m

----------------------------------------------------------------------------
(* Python string operations on symbol sequences *)

\* str.strip(): drop the blanks at both ends
Strip(s) ==
    LET keep == {k \in 1..Len(s) : s[k] # " "}
    IN  IF keep = {} THEN <<>> ELSE SubSeq(s, Min(keep), Max(keep))

RECURSIVE SplitAcc(_, _, _, _, _)
SplitAcc(s, sep, k, cur, acc) ==
    IF k > Len(s) THEN Append(acc, cur)
    ELSE IF s[k] = sep THEN SplitAcc(s, sep, k + 1, <<>>, Append(acc, cur))
    ELSE SplitAcc(s, sep, k + 1, Append(cur, s[k]), acc)

\* str.split('\n'): the pieces between newlines, empty pieces kept
SplitLines(s) == SplitAcc(s, "NL", 1, <<>>, <<>>)

\* str.split(): the maximal runs of non-blank symbols
SplitWords(s) == SelectSeq(SplitAcc(s, " ", 1, <<>>, <<>>), LAMBDA w : w # <<>>)

\* list.index(x): the first position of x, 0 when absent (ValueError)
IndexOf(lst, x) ==
    LET at == {k \in 1..Len(lst) : lst[k] = x}
    IN  IF at = {} THEN 0 ELSE Min(at)

----------------------------------------------------------------------------
(* The three regular expressions of the loop body.  "." matches anything    *)
(* but a newline; "$" matches at the end or before a final newline;         *)
(* re.match anchors the pattern at the start of the title only.             *)

NoNewline(t, a, b) == \A j \in a..b : t[j] # "NL"

AtEnd(t, k) == k = Len(t) \/ (k = Len(t) - 1 /\ t[Len(t)] = "NL")

\* re.match(r'.* Candidate Details', title), line 82
MatchCandidateDetails(t) ==
    \E k \in 1..Len(t) : t[k] = "CD" /\ NoNewline(t, 1, k - 1)

\* re.match(r'.*\.pdf$', title), line 111
MatchResume(t) ==
    \E k \in 1..Len(t) : t[k] = "PDF" /\ NoNewline(t, 1, k - 1) /\ AtEnd(t, k)

\* re.match(r'.*\.pdf \(.*\)$', title), line 134
MatchResumeError(t) ==
    \E k \in 1..Len(t) : \E m \in (k + 2)..Len(t) :
        /\ t[k] = "PDF" /\ t[k + 1] = "LP" /\ t[m] = "RP"
        /\ NoNewline(t, 1, k - 1) /\ NoNewline(t, k + 2, m - 1)
        /\ AtEnd(t, m)

----------------------------------------------------------------------------
(* Candidate details extraction, lines 86-99 *)

EmailLabel == <<"Email Address:">>

NoRow == [title |-> <<>>, first_name |-> <<>>, last_name |-> <<>>, email |-> <<>>]

\* Mutant: the title is never recognised
NameHead_NoTitle(c_fullname) == [title |-> <<>>, first_name |-> c_fullname[1]]

\* c_title / c_firstname, lines 89-96
NameHead(c_fullname) ==
    IF c_fullname[1] \in TITLES
    THEN [title |-> c_fullname[1], first_name |-> c_fullname[2]]
    ELSE [title |-> <<>>, first_name |-> c_fullname[1]]

\* c_lastname, line 98
LastName(c_fullname) == c_fullname[Len(c_fullname)]

\* details[0].strip().split(), line 87
FullName(lines) == SplitWords(Strip(lines[1]))

\* The outcome of lines 87-99 on the lines of a page: the exception raised,
\* or the fields of the row.
ExtractDetails(lines) ==
    LET c_fullname == FullName(lines)
        at         == IndexOf(lines, EmailLabel)
    IN  IF Len(c_fullname) = 0
        THEN [exc |-> "IndexError_89", row |-> NoRow]
        ELSE IF c_fullname[1] \in TITLES /\ Len(c_fullname) < 2
        THEN [exc |-> "IndexError_92", row |-> NoRow]
        ELSE IF at = 0
        THEN [exc |-> "ValueError_99", row |-> NoRow]
        ELSE IF at = Len(lines)
        THEN [exc |-> "IndexError_99", row |-> NoRow]
        ELSE [exc |-> "none",
              row |-> [title      |-> NameHead(c_fullname).title,
                       first_name |-> NameHead(c_fullname).first_name,
                       last_name  |-> LastName(c_fullname),
                       email      |-> Strip(lines[at + 1])]]

----------------------------------------------------------------------------
(* The outline and the resume segmenter *)

SubDests == [list |-> TRUE, title |-> <<>>, page |-> 0]

Dest(t, p) == [list |-> FALSE, title |-> t, page |-> p]

\* Mutant: the scan stops at the very next entry, nested list or not
ScanNext_NoSkip(outlines, k) == IF k > Len(outlines) THEN 0 ELSE k

\* The while loop of lines 116-121 from position k on: the position of the
\* first entry that is not a list, 0 when doc.outlines[k] runs off the end
\* (IndexError).
RECURSIVE ScanNext(_, _)
ScanNext(outlines, k) ==
    IF k > Len(outlines) THEN 0
    ELSE IF ~outlines[k].list THEN k
    ELSE ScanNext(outlines, k + 1)

NextDest(outlines, pos) == ScanNext(outlines, pos + 1)

\* Mutant: the page of the next bookmark is taken into the resume as well
PageRange_Inclusive(page_num, next_dest_pagenum) ==
    IF next_dest_pagenum >= page_num
    THEN [j \in 1..(next_dest_pagenum - page_num + 1) |-> page_num + j - 1]
    ELSE <<>>

\* range(page_num, next_dest_pagenum), line 127
PageRange(page_num, next_dest_pagenum) ==
    IF next_dest_pagenum > page_num
    THEN [j \in 1..(next_dest_pagenum - page_num) |-> page_num + j - 1]
    ELSE <<>>

\* open("<id>.pdf", "wb") and write, lines 131-132: creates or replaces
WriteFile(fs, name, content) ==
    [n \in DOMAIN fs \cup {name} |-> IF n = name THEN content ELSE fs[n]]

\* Mutant: the resume is named for the candidate that comes next
ResumeName_Next(cid) == cid + 1

\* "{0}/resumes/{1}.pdf".format(OUTPUT_DIR, candidate_id), line 131: the
\* candidate id that names the resume
ResumeName(cid) == cid

\* candidate_id += 1, line 83
NextCandidateId(cid) == cid + 1

----------------------------------------------------------------------------
(* Inputs *)

TitleSyms == {"x", "CD", "PDF", "LP", "RP", "NL"}

T_Other         == <<"x">>
T_Details       == <<"x", "CD">>
T_Resume        == <<"x", "PDF">>
T_ResumeError   == <<"x", "PDF", "LP", "x", "RP">>
T_DetailsResume == <<"x", "CD", "PDF">>
T_DetailsError  == <<"x", "CD", "PDF", "LP", "x", "RP">>

\* One title for every combination of matches the three patterns allow
MainTitles == {T_Other, T_Details, T_Resume, T_ResumeError, T_DetailsResume,
               T_DetailsError}

SegTitles == {T_Other, T_Resume}

SegDetailsTitles == {T_Other, T_Resume, T_Details, T_DetailsResume}

AllTitles == SeqsUpTo(TitleSyms, MaxTitleLen)

Entries(titles, numPages) ==
    {SubDests} \cup {Dest(t, p) : t \in titles, p \in 0..(numPages - 1)}

Outlines == SeqsUpTo(Entries(MainTitles, NumPages), MaxOutline)

\* Longer outlines of resume markers and other bookmarks, and shorter ones
\* that hold details markers too
SegOutlines ==
    SeqsUpTo(Entries(SegTitles, SegNumPages), MaxSegOutline)
    \cup SeqsUpTo(Entries(SegDetailsTitles, SegNumPages), MaxOutline)

ClassifyOutlines ==
    {<<Dest(t, 0), SubDests, Dest(T_Other, 1)>> : t \in AllTitles}

ParseOutlines == {<<Dest(T_Details, 0), SubDests, Dest(T_Other, 1)>>}

Tail_Email   == <<"NL", "Email Address:", "NL", " ", "a@b", " ">>
Tail_NoValue == <<"NL", "Email Address:">>

Text_Titled    == <<"Mr", " ", "John", " ", "Q", " ", "Public">> \o Tail_Email
Text_Untitled  == <<"Jane", " ", "Doe">> \o Tail_Email
Text_BlankLine == <<"NL", "Jane", " ", "Doe">> \o Tail_Email
Text_NoEmail   == <<"Jane", " ", "Doe">>

MainTexts == {Text_Titled, Text_Untitled, Text_BlankLine, Text_NoEmail}

\* One page that yields a row and one whose extraction raises
SegTexts == {Text_Titled, Text_NoEmail}

NameWords == {"Mr", "John", "Q", "Public"}

RECURSIVE Join(_, _)
Join(ws, sep) ==
    IF Len(ws) = 0 THEN <<>>
    ELSE IF Len(ws) = 1 THEN <<ws[1]>>
    ELSE <<ws[1]>> \o sep \o Join(Tail(ws), sep)

\* Up to MaxWords words, one or two blanks apart, with or without a blank
\* before and after
NameLines ==
    {pre \o Join(ws, sep) \o post :
        ws \in SeqsUpTo(NameWords, MaxWords), sep \in {<<" ">>, <<" ", " ">>},
        pre \in {<<>>, <<" ">>}, post \in {<<>>, <<" ">>}}

Leads == {<<>>, <<"NL">>}

Tails == {<<>>, Tail_NoValue, Tail_Email}

AllTexts ==
    {lead \o name \o tail :
        lead \in Leads, name \in NameLines, tail \in Tails}

----------------------------------------------------------------------------
(* The script *)

\* The branches of the loop body that run for a title: the if of line 82,
\* then the if / elif of lines 111 and 134.
Branches(t) ==
    (IF MatchCandidateDetails(t) THEN {"details"} ELSE {})
    \cup (IF MatchResume(t) THEN {"resume"}
          ELSE IF MatchResumeError(t) THEN {"resume_error"}
          ELSE {})

\* Lines 58-62: the state before the first statement that can fail
Init ==
    /\ pc = "start"
    /\ exc = "none"
    /\ doc = [outlines |-> <<>>, numPages |-> 0]
    /\ i = 0
    /\ candidate_id = 0
    /\ resume_count = 0
    /\ resume_errors = 0
    /\ details = <<>>
    /\ rows = <<>>
    /\ files = <<>>
    /\ emitted = <<>>
    /\ summary = <<>>

\* Lines 38-55: sys.exit() when an input is missing or the output folders
\* cannot be made, else the CSV is opened and its header written.
Setup ==
    /\ pc = "start"
    /\ \E inputsExist \in BOOLEAN, dirsMade \in BOOLEAN :
          pc' = IF inputsExist /\ dirsMade THEN "open" ELSE "exited"
    /\ UNCHANGED <<exc, doc, i, candidate_id, resume_count, resume_errors,
                   details, rows, files, emitted, summary>>

\* Lines 65-72: open the input PDF and start on its outline
OpenDoc(outlineSet, numPages) ==
    /\ pc = "open"
    /\ \E o \in outlineSet : doc' = [outlines |-> o, numPages |-> numPages]
    /\ i' = 1
    /\ pc' = "loop"
    /\ UNCHANGED <<exc, candidate_id, resume_count, resume_errors, details,
                   rows, files, emitted, summary>>

\* Lines 72-75: a sub-destination list is ignored
SkipSubDest ==
    /\ pc = "loop"
    /\ i <= Len(doc.outlines)
    /\ doc.outlines[i].list
    /\ i' = i + 1
    /\ UNCHANGED <<pc, exc, doc, candidate_id, resume_count, resume_errors,
                   details, rows, files, emitted, summary>>

\* Lines 77-136: the loop body for one destination
ProcessDest(textSet) ==
    /\ pc = "loop"
    /\ i <= Len(doc.outlines)
    /\ ~doc.outlines[i].list
    /\ LET dest     == doc.outlines[i]
           page_num == dest.page
           br       == Branches(dest.title)
       IN  \E txt \in (IF "details" \in br THEN textSet ELSE {<<>>}) :
           LET cid  == IF "details" \in br
                       THEN NextCandidateId(candidate_id) ELSE candidate_id
               ext  == ExtractDetails(SplitLines(txt))
               detailsRaised == "details" \in br /\ ext.exc # "none"
               k    == NextDest(doc.outlines, i)
               scanRaised == ~detailsRaised /\ "resume" \in br /\ k = 0
               wrote == ~detailsRaised /\ "resume" \in br /\ k # 0
               resume == IF wrote
                         THEN PageRange(page_num, doc.outlines[k].page)
                         ELSE <<>>
           IN  /\ candidate_id' = cid
               /\ details' = IF "details" \in br THEN SplitLines(txt) ELSE details
               /\ rows' = IF "details" \in br /\ ~detailsRaised
                          THEN Append(rows, [id         |-> cid,
                                             title      |-> ext.row.title,
                                             first_name |-> ext.row.first_name,
                                             last_name  |-> ext.row.last_name,
                                             email      |-> ext.row.email])
                          ELSE rows
               /\ resume_count' = IF ~detailsRaised /\ "resume" \in br
                                  THEN resume_count + 1 ELSE resume_count
               /\ resume_errors' = IF ~detailsRaised /\ "resume_error" \in br
                                   THEN resume_errors + 1 ELSE resume_errors
               /\ files' = IF wrote
                           THEN WriteFile(files, ResumeName(cid), resume)
                           ELSE files
               /\ emitted' = IF wrote
                             THEN Append(emitted,
                                         [id    |-> ResumeName(cid),
                                          pos   |-> i,
                                          pages |-> resume])
                             ELSE emitted
               /\ exc' = IF detailsRaised THEN ext.exc
                         ELSE IF scanRaised THEN "IndexError_119"
                         ELSE "none"
               /\ pc' = IF detailsRaised \/ scanRaised THEN "raised" ELSE "loop"
               /\ i' = IF detailsRaised \/ scanRaised THEN i ELSE i + 1
    /\ UNCHANGED <<doc, summary>>

\* Lines 138-143: the outline is exhausted; close the CSV, print the counts
Finish ==
    /\ pc = "loop"
    /\ i > Len(doc.outlines)
    /\ pc' = "done"
    /\ summary' = <<candidate_id, resume_count, resume_errors>>
    /\ UNCHANGED <<exc, doc, i, candidate_id, resume_count, resume_errors,
                   details, rows, files, emitted>>

Next ==
    \/ Setup
    \/ OpenDoc(Outlines, NumPages)
    \/ SkipSubDest
    \/ ProcessDest(MainTexts)
    \/ Finish

Spec == Init /\ [][Next]_vars

\* The same script on the outlines of SegOutlines, in documents of SegNumPages
\* pages
NextSeg ==
    \/ Setup
    \/ OpenDoc(SegOutlines, SegNumPages)
    \/ SkipSubDest
    \/ ProcessDest(SegTexts)
    \/ Finish

SegSpec == Init /\ [][NextSeg]_vars

\* The same script with every title up to MaxTitleLen symbols as the first
\* bookmark
NextClassify ==
    \/ Setup
    \/ OpenDoc(ClassifyOutlines, 2)
    \/ SkipSubDest
    \/ ProcessDest(MainTexts)
    \/ Finish

ClassifySpec == Init /\ [][NextClassify]_vars

\* The same script with every page text of AllTexts on one details page
NextParse ==
    \/ Setup
    \/ OpenDoc(ParseOutlines, 2)
    \/ SkipSubDest
    \/ ProcessDest(AllTexts)
    \/ Finish

ParseSpec == Init /\ [][NextParse]_vars

----------------------------------------------------------------------------
(* Vocabulary of the properties *)

\* The loop is about to run its body on a destination
AtDest ==
    /\ pc = "loop"
    /\ i <= Len(doc.outlines)
    /\ ~doc.outlines[i].list

CurTitle == doc.outlines[i].title

\* The outline positions whose loop body has been entered so far
Entered ==
    {k \in 1..Len(doc.outlines) : k < i \/ (k = i /\ pc = "raised")}

\* The number of details markers met so far
DetailsMarkersSeen ==
    Cardinality({k \in Entered :
        ~doc.outlines[k].list /\ MatchCandidateDetails(doc.outlines[k].title)})

\* A title of the form "<anything>.pdf (<anything>)"
FormPdfParen(t) ==
    /\ Len(t) >= 3
    /\ t[Len(t)] = "RP"
    /\ \E k \in 1..(Len(t) - 2) : t[k] = "PDF" /\ t[k + 1] = "LP"

\* A title that ends with " Candidate Details"
EndsWithCandidateDetails(t) == Len(t) >= 1 /\ t[Len(t)] = "CD"

PageSet(seg) == {seg[j] : j \in 1..Len(seg)}

----------------------------------------------------------------------------
(* C1: the ids of the rows written to the CSV are exactly 1..N, in          *)
(* increasing order, where N is the number of details markers met.          *)
(* Stated as claimed; refuted when the extraction of a details page raises: *)
(* the counter has been incremented and no row is written.                  *)
CE_C1_IdsAreOneToN ==
    /\ Len(rows) = DetailsMarkersSeen
    /\ \A k \in 1..Len(rows) : rows[k].id = k

CE_C6_NeverAborted == pc # "raised"

(* C9: the loop body on a title "<anything>.pdf (<anything>)" adds one to   *)
(* resume_errors and changes nothing else.  Stated as claimed, of a body    *)
(* that runs to its end; refuted by a title that also holds                 *)
(* " Candidate Details", on which the details branch runs as well.          *)
CE_C9_ErrorMarkerFrame ==
    [][ (AtDest /\ FormPdfParen(CurTitle) /\ pc' = "loop")
            => /\ resume_errors' = resume_errors + 1
               /\ UNCHANGED <<candidate_id, resume_count, rows, files, emitted>>
      ]_vars

(* C3: a resume marker with no top-level bookmark after it gets the pages   *)
(* from its own page to the end of the document, and the run goes on.       *)
(* Stated as claimed; refuted because the scan of lines 116-121 indexes     *)
(* past the end of the outline.                                             *)
CE_C3_LastResumeToEndOfDocument ==
    [][ ( /\ AtDest
          /\ MatchResume(CurTitle) /\ ~MatchCandidateDetails(CurTitle)
          /\ \A j \in (i + 1)..Len(doc.outlines) : doc.outlines[j].list )
            => /\ pc' = "loop"
               /\ exc' = "none"
               /\ Len(emitted') = Len(emitted) + 1
               /\ PageSet(emitted'[Len(emitted')].pages)
                     = doc.outlines[i].page..(doc.numPages - 1)
      ]_vars

(* C4: at most one of the three branches (details, resume, resume error)    *)
(* runs for one bookmark; the resume branch never runs on a title           *)
(* "<anything>.pdf (<anything>)"; the details branch runs only on a title   *)
(* that ends with " Candidate Details".  Stated as claimed, of a body that  *)
(* runs to its end, each branch seen by the counter it increments; refuted  *)
(* because the pattern of line 82 is not anchored at the end and line 111   *)
(* is an if, not an elif.                                                   *)
CE_C4_OneBranchPerBookmark ==
    [][ (AtDest /\ pc' = "loop")
            => /\ (candidate_id' - candidate_id)
                    + (resume_count' - resume_count)
                    + (resume_errors' - resume_errors) <= 1
               /\ FormPdfParen(CurTitle) => resume_count' = resume_count
               /\ candidate_id' # candidate_id
                    => EndsWithCandidateDetails(CurTitle)
      ]_vars

\* The top-level bookmarks have non-decreasing pages in outline order
MonotonePages(outlines) ==
    \A a \in 1..Len(outlines) : \A b \in (a + 1)..Len(outlines) :
        (~outlines[a].list /\ ~outlines[b].list)
            => outlines[a].page <= outlines[b].page

\* No page is in two of the resumes written so far
SegmentsDisjoint ==
    \A a \in 1..Len(emitted) : \A b \in (a + 1)..Len(emitted) :
        PageSet(emitted[a].pages) \cap PageSet(emitted[b].pages) = {}

(* C5 as claimed: for any outline, the resumes written are pairwise         *)
(* disjoint.  Refuted by an outline whose bookmarks go back to an earlier   *)
(* page.                                                                    *)
CE_C5_SegmentsDisjoint == SegmentsDisjoint

(* C5 as amended: when the pages of the top-level bookmarks do not decrease *)
(* in outline order, the resumes written are pairwise disjoint.             *)
Thm_C5_SegmentsDisjointWhenMonotone ==
    MonotonePages(doc.outlines) => SegmentsDisjoint

\* Two resumes with pages, written from an outline with non-decreasing pages
W_C5_TwoSegments ==
    /\ MonotonePages(doc.outlines)
    /\ \E a \in 1..Len(emitted) : \E b \in (a + 1)..Len(emitted) :
          emitted[a].pages # <<>> /\ emitted[b].pages # <<>>

\* The top-level positions after pos
LaterTopLevel(outlines, pos) ==
    {j \in (pos + 1)..Len(outlines) : ~outlines[j].list}

(* C7: every resume written for the marker at position pos holds exactly    *)
(* the pages start, start+1, ..., end-1 in that order, where start is the   *)
(* marker's page and end the page of the first entry after pos that is not  *)
(* a nested list; and every resume marker whose body has run and that has a *)
(* later top-level bookmark has its resume written.                         *)
Thm_C7_SegmentIsStartToNextTopLevel ==
    /\ \A n \in 1..Len(emitted) :
          LET pos   == emitted[n].pos
              later == LaterTopLevel(doc.outlines, pos)
              start == doc.outlines[pos].page
              end   == doc.outlines[Min(later)].page
              pages == emitted[n].pages
          IN  /\ later # {}
              /\ MatchResume(doc.outlines[pos].title)
              /\ Len(pages) = IF end > start THEN end - start ELSE 0
              /\ \A j \in 1..Len(pages) : pages[j] = start + (j - 1)
    /\ \A k \in 1..Len(doc.outlines) :
          ( /\ k < i
            /\ ~doc.outlines[k].list
            /\ MatchResume(doc.outlines[k].title)
            /\ LaterTopLevel(doc.outlines, k) # {} )
              => \E n \in 1..Len(emitted) : emitted[n].pos = k

\* A resume of two pages or more whose marker is followed by a nested list
W_C7_SegmentPastNestedList ==
    \E n \in 1..Len(emitted) :
        /\ Len(emitted[n].pages) >= 2
        /\ doc.outlines[emitted[n].pos + 1].list

(* C8: at the end of a run the output folder holds as many resume files as  *)
(* the count of resumes printed, none having been overwritten.  Stated as   *)
(* claimed; refuted by two resume markers under one candidate id: the       *)
(* second open(..., "wb") replaces the file of the first.                   *)
CE_C8_OneFilePerResume ==
    pc = "done" => Cardinality(DOMAIN files) = summary[2]

----------------------------------------------------------------------------
(* C10: the name fields of a row, from the words of a line *)

Blank(line, k) == line[k] = " "

\* The maximal runs of non-blank symbols of a line, as <<from, to>>
Runs(line) ==
    {r \in (1..Len(line)) \X (1..Len(line)) :
        /\ r[1] <= r[2]
        /\ \A k \in r[1]..r[2] : ~Blank(line, k)
        /\ r[1] = 1 \/ Blank(line, r[1] - 1)
        /\ r[2] = Len(line) \/ Blank(line, r[2] + 1)}

\* The n-th word of a line, counted from the left
Word(line, n) ==
    LET r == CHOOSE r \in Runs(line) :
                 Cardinality({q \in Runs(line) : q[1] < r[1]}) = n - 1
    IN  SubSeq(line, r[1], r[2])

WordCount(line) == Cardinality(Runs(line))

\* The line holds a first name: a word, and a second one after a title
NameOk(line) ==
    /\ WordCount(line) >= 1
    /\ Word(line, 1) \in TITLES => WordCount(line) >= 2

ExpectedName(line) ==
    [title      |-> IF Word(line, 1) \in TITLES THEN Word(line, 1) ELSE <<>>,
     first_name |-> IF Word(line, 1) \in TITLES THEN Word(line, 2)
                    ELSE Word(line, 1),
     last_name  |-> Word(line, WordCount(line))]

\* The page has an "Email Address:" line, the first of them with a line after
EmailOk(lines) ==
    \E k \in 1..(Len(lines) - 1) :
        lines[k] = EmailLabel /\ \A j \in 1..(k - 1) : lines[j] # EmailLabel

NonEmptyLines(lines) == {k \in 1..Len(lines) : lines[k] # <<>>}

\* The row of the details page read last has been written
RowWritten == Len(rows) >= 1 /\ rows[Len(rows)].id = candidate_id

NameOfLastRow ==
    [title      |-> rows[Len(rows)].title,
     first_name |-> rows[Len(rows)].first_name,
     last_name  |-> rows[Len(rows)].last_name]

(* C10 as claimed: the row of a details page comes from the first non-empty *)
(* line of the page (a name line, not the email label).  Refuted by a page  *)
(* whose first line is empty: line 87 reads details[0], finds no word and   *)
(* line 89 raises.                                                          *)
CE_C10_NameFromFirstNonEmptyLine ==
    ( /\ details # <<>>
      /\ NonEmptyLines(details) # {}
      /\ details[Min(NonEmptyLines(details))] # EmailLabel
      /\ NameOk(details[Min(NonEmptyLines(details))])
      /\ EmailOk(details) )
        => /\ RowWritten
           /\ NameOfLastRow = ExpectedName(details[Min(NonEmptyLines(details))])

(* C10 as amended: the row of a details page comes from the first line of   *)
(* the page: title and first name from the first two words when the first   *)
(* is a title, else no title and the first word; last name the last word.   *)
(* The row is written exactly when that line holds a first name and the     *)
(* page an "Email Address:" line with a line after it.                      *)
Thm_C10_NameFromFirstLine ==
    details # <<>>
        => /\ RowWritten <=> (NameOk(details[1]) /\ EmailOk(details))
           /\ RowWritten => NameOfLastRow = ExpectedName(details[1])

\* The row of "Mr John Q Public": the middle word dropped
W_C10_TitledWithMiddleName ==
    /\ details # <<>>
    /\ RowWritten
    /\ WordCount(details[1]) = 4
    /\ NameOfLastRow =
          [title |-> <<"Mr">>, first_name |-> <<"John">>, last_name |-> <<"Public">>]

====
